---- MODULE Spec2Model ----
(***************************************************************************)
(* The verification bot of src/index.js (current revision, lines 1-631) as *)
(* a state machine.  Every event handler is an async function: it runs     *)
(* synchronously up to an `await`, is suspended there, and is resumed      *)
(* later with the outcome of the awaited call.  A handler in flight is a   *)
(* record in the bag `handlers`; its field pc names the await it is        *)
(* suspended at.  One action is one synchronous run of one handler, from   *)
(* an event or a resumption to the next await or to the handler's end.     *)
(***************************************************************************)
EXTENDS Bags, FiniteSets, Integers, Sequences, TLC

(***************************************************************************)
(* Configuration and bounds                                                *)
(***************************************************************************)
\* process.env.ADMIN_ID
ADMIN_ID == 1

\* the identities that send events: the admin and an ordinary user
UserIds == {ADMIN_ID, 42}

\* how many handlers may be suspended at an await at the same time
MaxInFlight == 2

\* the static question of handleStartCommandForVerification
verificationQuestion == "purpose?"

(***************************************************************************)
(* Message texts are sequences of characters, so that trim, startsWith,    *)
(* split, substring and toLowerCase are computed as the code computes them.*)
(***************************************************************************)
T_start      == <<"/", "s", "t", "a", "r", "t">>
T_Start      == <<"/", "S", "t", "a", "r", "t", " ", "v">>
T_chat       == <<"/", "c", "h", "a", "t", " ", "h", "i">>
T_chatEmpty  == <<"/", "c", "h", "a", "t", " ">>
T_sendverify == <<"/", "s", "e", "n", "d", "v", "e", "r", "i", "f", "y">>
T_hi         == <<"h", "i">>
T_padded     == <<" ", "h", "i", " ">>
NoText       == <<>>

RECURSIVE TrimStart(_)
TrimStart(s) ==
    IF s # <<>> /\ Head(s) = " " THEN TrimStart(Tail(s)) ELSE s

RECURSIVE TrimEnd(_)
TrimEnd(s) ==
    IF s # <<>> /\ s[Len(s)] = " " THEN TrimEnd(SubSeq(s, 1, Len(s) - 1)) ELSE s

\* String.prototype.trim
Trim(s) == TrimEnd(TrimStart(s))

\* String.prototype.startsWith
StartsWith(s, p) == Len(s) >= Len(p) /\ SubSeq(s, 1, Len(p)) = p

IsCommand(s) == StartsWith(s, <<"/">>)

\* String.prototype.split(" ")
RECURSIVE Split(_)
Split(s) ==
    IF \E i \in 1..Len(s) : s[i] = " "
    THEN LET i == CHOOSE k \in 1..Len(s) :
                     s[k] = " " /\ \A j \in 1..(k - 1) : s[j] # " "
         IN  <<SubSeq(s, 1, i - 1)>> \o Split(SubSeq(s, i + 1, Len(s)))
    ELSE <<s>>

\* Array.prototype.join(" ")
RECURSIVE Join(_)
Join(parts) ==
    IF parts = <<>> THEN <<>>
    ELSE IF Len(parts) = 1 THEN parts[1]
    ELSE parts[1] \o <<" ">> \o Join(Tail(parts))

LowerChar(c) ==
    CASE c = "S" -> "s"
      [] c = "C" -> "c"
      [] OTHER   -> c

\* String.prototype.toLowerCase
ToLowerCase(s) == [i \in 1..Len(s) |-> LowerChar(s[i])]

\* commandParts[0].substring(1).toLowerCase()
CommandName(userInput) ==
    LET first == Split(userInput)[1]
    IN  ToLowerCase(SubSeq(first, 2, Len(first)))

\* the command name kept among the arguments
CommandArgs_keepName(userInput) == Split(userInput)

\* commandParts.slice(1)
CommandArgs(userInput) == Tail(Split(userInput))

(***************************************************************************)
(* JavaScript objects used as maps: a function whose domain is the set of  *)
(* keys present.                                                           *)
(***************************************************************************)
Has(obj, k)    == k \in DOMAIN obj
Put(obj, k, v) == [x \in (DOMAIN obj) \cup {k} |-> IF x = k THEN v ELSE obj[x]]
Delete(obj, k) == [x \in (DOMAIN obj) \ {k} |-> obj[x]]
\* if (verifiedUsers[userId])
Truthy(obj, k) == Has(obj, k) /\ obj[k] = TRUE

\* callback_data: `approve_${userId}` / `reject_${userId}`, decoded by split("_")
CallbackData(action, userId) == <<action, userId>>

\* an id that Number() turns into NaN
NaN == -1

(***************************************************************************)
(* State                                                                   *)
(***************************************************************************)
VARIABLES
    together,                    \* TRUE iff TOGETHER_AI_API_KEY is set
    PRIVATE_GROUP_ID,            \* TRUE iff PRIVATE_GROUP_ID is set
    verifiedUsers,               \* in memory: userId -> boolean
    verifiedUsersFile,           \* verified_users.json
    lastVerificationMessage,     \* in memory: messageId, 0 for null
    lastVerificationMessageFile, \* last_verification_message.json
    writeFailed,                 \* history: some fs.writeFileSync has thrown
    verificationSessions,        \* userId -> [question]
    pendingApprovals,            \* userId -> [question, answer]
    channel,                     \* [live: prompt messages in the public channel, next: id of the next post]
    handlers,                    \* bag of the handlers suspended at an await
    last                         \* how the last step left its handler, and the calls of a step that ended one

config == <<together, PRIVATE_GROUP_ID>>
memory == <<verifiedUsers, lastVerificationMessage, verificationSessions, pendingApprovals>>
files  == <<verifiedUsersFile, lastVerificationMessageFile, writeFailed>>
vars   == <<config, memory, files, channel, handlers, last>>

\* the highest message id the public channel hands out
MaxMessageId == 2

Running == [how |-> "running", calls |-> <<>>]

InFlight == BagCardinality(handlers)

\* a transport call: bot.<op>(to, text, ...) with what the text carries
Call(op, to, text, extra) == [op |-> op, to |-> to, text |-> text, extra |-> extra]
Send(to, text)            == Call("sendMessage", to, text, <<>>)
Ack(to, text)             == Call("answerCallbackQuery", to, text, <<>>)

\* the handler is suspended again, as h2, having issued the calls cs
Suspend(h, h2, cs) ==
    /\ handlers' = (handlers (-) SetToBag({h})) (+) SetToBag({[h2 EXCEPT !.calls = cs]})
    /\ last' = Running

\* the handler ends, having issued the calls cs: how is "returned" or "threw"
End(h, how, cs) ==
    /\ handlers' = handlers (-) SetToBag({h})
    /\ last' = [how |-> how, calls |-> cs]

\* an event starts a handler, which runs to its first await and issues cs
Start(h, cs) ==
    /\ InFlight < MaxInFlight
    /\ handlers' = handlers (+) SetToBag({[h EXCEPT !.calls = cs]})
    /\ last' = Running

\* the file not read: the process starts with no verified user
loadVerifiedUsers_empty(file) == <<>>

\* loadVerifiedUsers: the parsed file ({} when it is absent or corrupt)
loadVerifiedUsers(file) == file

\* loadLastVerificationMessage: the parsed file (null when absent or corrupt)
loadLastVerificationMessage(file) == file

Init ==
    /\ together \in BOOLEAN
    /\ PRIVATE_GROUP_ID \in BOOLEAN
    /\ verifiedUsersFile \in {<<>>, [u \in {42} |-> TRUE]}
    /\ verifiedUsers = loadVerifiedUsers(verifiedUsersFile)
    /\ lastVerificationMessageFile = 0
    /\ writeFailed = FALSE
    /\ lastVerificationMessage = loadLastVerificationMessage(lastVerificationMessageFile)
    /\ verificationSessions = <<>>
    /\ pendingApprovals = <<>>
    /\ channel = [live |-> {}, next |-> 1]
    /\ handlers = EmptyBag
    /\ last = Running

(***************************************************************************)
(* Inbound events                                                          *)
(***************************************************************************)
Msg(from, text, private, reply, is_bot, restricted) ==
    [from |-> from, text |-> text, private |-> private, reply |-> reply,
     is_bot |-> is_bot, restricted |-> restricted]

\* the verification dialogue of user 42: /start and a padded text in a private
\* chat, a reply to a message, /start and a text in the group
VerifyMsgs ==
    {Msg(42, t, TRUE, FALSE, FALSE, FALSE) : t \in {T_start, T_Start, T_padded}}
    \cup {Msg(42, T_hi, TRUE, TRUE, FALSE, FALSE)}
    \cup {Msg(42, t, FALSE, FALSE, FALSE, FALSE) : t \in {T_start, T_hi}}

\* callback_query events: who pressed, and the button's callback_data
Queries ==
    {[from |-> a, data |-> CallbackData(act, 42)] :
        a \in UserIds, act \in {"approve", "reject"}}
    \cup {[from |-> ADMIN_ID, data |-> CallbackData("approve", NaN)],
          [from |-> ADMIN_ID, data |-> <<"noop">>]}

MessageHandler(pc, userId) ==
    [kind |-> "message", pc |-> pc, userId |-> userId, calls |-> <<>>]

CallbackHandler(pc, query) ==
    [kind |-> "callback", pc |-> pc, query |-> query, calls |-> <<>>]

(***************************************************************************)
(* bot.on("message"): handleRestrictedTopicMessage, then the await of it    *)
(***************************************************************************)
handleRestrictedTopicMessage(msg) ==
    IF msg.restricted /\ msg.from # ADMIN_ID
    THEN <<Call("deleteMessage", msg.from, "TopicMessage", <<>>)>>
    ELSE <<>>

\* the listener to its first await.  Messages that wait there are routed in
\* any order: a message of the restricted topic waits for deleteMessage.
OnMessage(msg) ==
    /\ Start([kind |-> "message", pc |-> "m_topic", msg |-> msg, calls |-> <<>>],
             handleRestrictedTopicMessage(msg))
    /\ UNCHANGED <<config, memory, files, channel>>

\* the branches with the general chat not tested for the completion client
RouteBranch_noTogetherCheck(msg) ==
    LET userInput == Trim(msg.text)
    IN  IF msg.text = <<>> \/ msg.is_bot THEN "ignored"
        ELSE IF msg.reply /\ ~IsCommand(userInput) THEN "reply"
        ELSE IF msg.private /\ Has(verificationSessions, msg.from) THEN "answer"
        ELSE IF IsCommand(userInput) THEN "command"
        ELSE IF msg.private THEN "general"
        ELSE "none"

\* the branches with the open session tested before the reply
RouteBranch_answerFirst(msg) ==
    LET userInput == Trim(msg.text)
    IN  IF msg.text = <<>> \/ msg.is_bot THEN "ignored"
        ELSE IF msg.private /\ Has(verificationSessions, msg.from) THEN "answer"
        ELSE IF msg.reply /\ ~IsCommand(userInput) THEN "reply"
        ELSE IF IsCommand(userInput) THEN "command"
        ELSE IF msg.private /\ together THEN "general"
        ELSE "none"

\* which branch of the listener a message takes once the first await is over
RouteBranch(msg) ==
    LET userInput == Trim(msg.text)
    IN  IF msg.text = <<>> \/ msg.is_bot THEN "ignored"
        ELSE IF msg.reply /\ ~IsCommand(userInput) THEN "reply"
        ELSE IF msg.private /\ Has(verificationSessions, msg.from) THEN "answer"
        ELSE IF IsCommand(userInput) THEN "command"
        ELSE IF msg.private /\ together THEN "general"
        ELSE "none"

AtTopic(h) == h.kind = "message" /\ h.pc = "m_topic"

\* no text, a bot, or nothing to do: the listener returns
MessageIgnored(h) ==
    /\ AtTopic(h)
    /\ RouteBranch(h.msg) \in {"ignored", "none"}
    /\ End(h, "returned", <<>>)
    /\ UNCHANGED <<config, memory, files, channel>>

\* the call of the completion service made by generateGeneralChatResponse
Complete(userInput) == Call("complete", 0, "Completion", <<userInput>>)

\* 2. AI chat on reply
MessageReply(h) ==
    /\ AtTopic(h)
    /\ RouteBranch(h.msg) = "reply"
    /\ IF ~together
       THEN End(h, "returned", <<>>)
       ELSE Suspend(h, MessageHandler("generate", h.msg.from),
                    <<Call("sendChatAction", h.msg.from, "typing", <<>>),
                      Complete(Trim(h.msg.text))>>)
    /\ UNCHANGED <<config, memory, files, channel>>

\* 5. general messages in a private chat
MessageGeneral(h) ==
    /\ AtTopic(h)
    /\ RouteBranch(h.msg) = "general"
    /\ Suspend(h, MessageHandler("generate", h.msg.from),
               <<Call("sendChatAction", h.msg.from, "typing", <<>>),
                 Complete(Trim(h.msg.text))>>)
    /\ UNCHANGED <<config, memory, files, channel>>

\* generateGeneralChatResponse after its await: the completion or the fixed
\* fallback text, never an error; the caller sends it without awaiting
GenerateResume(h) ==
    /\ h.kind = "message" /\ h.pc = "generate"
    /\ \E r \in {"ok", "fail"} :
         End(h, "returned",
             <<Send(h.userId, IF r = "ok" THEN "Completion" ELSE "TemporarilyUnavailable")>>)
    /\ UNCHANGED <<config, memory, files, channel>>

\* a decision request whose buttons carry the admin's id, not the user's
DecisionRequest_adminButtons(userId, question, userAnswer) ==
    Call("sendMessage", ADMIN_ID, "DecisionRequest",
         <<userId, question, userAnswer,
           CallbackData("approve", ADMIN_ID), CallbackData("reject", ADMIN_ID)>>)

\* the decision request of sendVerificationAnswerToAdmin
DecisionRequest(userId, question, userAnswer) ==
    Call("sendMessage", ADMIN_ID, "DecisionRequest",
         <<userId, question, userAnswer,
           CallbackData("approve", userId), CallbackData("reject", userId)>>)

\* the session left in place
DeleteSession_skipped(userId) == verificationSessions

\* delete verificationSessions[userId]
DeleteSession(userId) == Delete(verificationSessions, userId)

\* 3. verification answer: the session moves to pendingApprovals, then the
\*    request goes to the admin
MessageAnswer(h) ==
    /\ AtTopic(h)
    /\ RouteBranch(h.msg) = "answer"
    /\ LET userId      == h.msg.from
           userInput   == Trim(h.msg.text)
           sessionData == verificationSessions[userId]
       IN  /\ pendingApprovals' =
                  Put(pendingApprovals, userId,
                      [question |-> sessionData.question, answer |-> userInput])
           /\ verificationSessions' = DeleteSession(userId)
           /\ Suspend(h, MessageHandler("m_ans_admin", userId),
                      <<DecisionRequest(userId, sessionData.question, userInput)>>)
    /\ UNCHANGED <<config, verifiedUsers, lastVerificationMessage, files, channel>>

\* the catch of the answer branch
AnswerCatch(h) ==
    /\ pendingApprovals' = Delete(pendingApprovals, h.userId)
    /\ End(h, "returned", <<Send(h.userId, "AnswerError")>>)

\* await sendVerificationAnswerToAdmin(...) is over
AnswerAdminResume(h) ==
    /\ h.kind = "message" /\ h.pc = "m_ans_admin"
    /\ \E r \in {"ok", "fail"} :
         IF r = "ok"
         THEN /\ Suspend(h, MessageHandler("m_ans_confirm", h.userId),
                         <<Send(h.userId, "AnswerForwarded")>>)
              /\ UNCHANGED pendingApprovals
         ELSE AnswerCatch(h)
    /\ UNCHANGED <<config, verifiedUsers, lastVerificationMessage,
                   verificationSessions, files, channel>>

\* await bot.sendMessage(userId, "answer forwarded") is over
AnswerConfirmResume(h) ==
    /\ h.kind = "message" /\ h.pc = "m_ans_confirm"
    /\ \E r \in {"ok", "fail"} :
         IF r = "ok"
         THEN /\ End(h, "returned", <<>>)
              /\ UNCHANGED pendingApprovals
         ELSE AnswerCatch(h)
    /\ UNCHANGED <<config, verifiedUsers, lastVerificationMessage,
                   verificationSessions, files, channel>>

AtCommand(h, name) ==
    /\ AtTopic(h)
    /\ RouteBranch(h.msg) = "command"
    /\ CommandName(Trim(h.msg.text)) = name

\* 4. a command that is none of start, chat, sendverify, or /start outside a
\*    private chat
MessageOtherCommand(h) ==
    /\ AtTopic(h)
    /\ RouteBranch(h.msg) = "command"
    /\ LET name == CommandName(Trim(h.msg.text))
       IN  \/ name \notin {Tail(T_start), Tail(T_sendverify), <<"c", "h", "a", "t">>}
           \/ name = Tail(T_start) /\ ~h.msg.private
    /\ End(h, "returned", <<>>)
    /\ UNCHANGED <<config, memory, files, channel>>

\* the guards without the check of verifiedUsers
StartGuard_noVerifiedCheck(userId) ==
    IF Has(verificationSessions, userId) \/ Has(pendingApprovals, userId)
    THEN "inProcess"
    ELSE "start"

\* the guards without the check of pendingApprovals
StartGuard_noPendingCheck(userId) ==
    IF Truthy(verifiedUsers, userId) THEN "verified"
    ELSE IF Has(verificationSessions, userId) THEN "inProcess"
    ELSE "start"

\* the guards of handleStartCommandForVerification
StartGuard(userId) ==
    IF Truthy(verifiedUsers, userId) THEN "verified"
    ELSE IF Has(verificationSessions, userId) \/ Has(pendingApprovals, userId)
    THEN "inProcess"
    ELSE "start"

\* /start in a private chat: handleStartCommandForVerification to its await
handleStartCommandForVerification(h) ==
    /\ AtCommand(h, Tail(T_start))
    /\ h.msg.private
    /\ LET userId == h.msg.from
           guard  == StartGuard(userId)
       IN  CASE guard = "verified" ->
                  /\ End(h, "returned", <<Send(userId, "AlreadyVerified")>>)
                  /\ UNCHANGED verificationSessions
             [] guard = "inProcess" ->
                  /\ End(h, "returned", <<Send(userId, "AlreadyInProcess")>>)
                  /\ UNCHANGED verificationSessions
             [] OTHER ->
                  /\ verificationSessions' =
                         Put(verificationSessions, userId, [question |-> verificationQuestion])
                  /\ Suspend(h, MessageHandler("s_question", userId),
                             <<Call("sendMessage", userId, "Question", <<verificationQuestion>>)>>)
    /\ UNCHANGED <<config, verifiedUsers, lastVerificationMessage, pendingApprovals,
                   files, channel>>

\* await bot.sendMessage(userId, question) is over
StartQuestionResume(h) ==
    /\ h.kind = "message" /\ h.pc = "s_question"
    /\ \E r \in {"ok", "fail"} :
         IF r = "ok"
         THEN /\ End(h, "returned", <<>>)
              /\ UNCHANGED verificationSessions
         ELSE /\ verificationSessions' = DeleteSession(h.userId)
              /\ End(h, "returned", <<Send(h.userId, "StartFailed")>>)
    /\ UNCHANGED <<config, verifiedUsers, lastVerificationMessage, pendingApprovals,
                   files, channel>>

\* /chat: handleChatCommand to its await
handleChatCommand(h) ==
    /\ AtCommand(h, <<"c", "h", "a", "t">>)
    /\ LET userId == h.msg.from
           query  == Trim(Join(CommandArgs(Trim(h.msg.text))))
       IN  IF ~together
           THEN End(h, "returned", <<Send(userId, "ChatDisabled")>>)
           ELSE IF query # <<>>
           THEN Suspend(h, MessageHandler("generate", userId),
                        <<Send(userId, "Thinking"), Complete(query)>>)
           ELSE End(h, "returned", <<Send(userId, "ChatUsage")>>)
    /\ UNCHANGED <<config, memory, files, channel>>

(***************************************************************************)
(* /sendverify: handleSendVerifyCommand                                    *)
(***************************************************************************)
\* the file never written
saveLastVerificationMessage_noWrite(messageId, written) == lastVerificationMessageFile

\* saveLastVerificationMessage: the file after the write, which may fail
saveLastVerificationMessage(messageId, written) ==
    IF written THEN messageId ELSE lastVerificationMessageFile

\* the prompt sent to the admin's chat instead of the public channel
PostPrompt_toAdmin == Call("sendMessage", ADMIN_ID, "Prompt", <<>>)

\* bot.sendMessage(PUBLIC_CHANNEL_ID, verificationText, verificationKeyboard)
PostPrompt == Call("sendMessage", 0, "Prompt", <<>>)

\* the handler that awaits the post of a new prompt; stale is the id the edit
\* reported as not found, 0 when there was no such report
SendVerifyPosting(userId, stale) ==
    [kind |-> "message", pc |-> "sv_send", userId |-> userId, stale |-> stale,
     calls |-> <<>>]

\* /sendverify to its first await: the edit of the recorded message, or the
\* post of a new one
handleSendVerifyCommand(h) ==
    /\ AtCommand(h, Tail(T_sendverify))
    /\ LET userId == h.msg.from
       IN  IF userId # ADMIN_ID
           THEN End(h, "returned", <<Send(userId, "AdminOnlyCommand")>>)
           ELSE IF lastVerificationMessage # 0
           THEN Suspend(h, [kind |-> "message", pc |-> "sv_edit", userId |-> userId,
                            message_id |-> lastVerificationMessage, calls |-> <<>>],
                        <<Call("editMessageText", 0, "Prompt", <<lastVerificationMessage>>)>>)
           ELSE Suspend(h, SendVerifyPosting(userId, 0), <<PostPrompt>>)
    /\ UNCHANGED <<config, memory, files, channel>>

\* the outcomes of editing message id in the channel
EditOutcomes(id) ==
    IF id \in channel.live THEN {"ok", "forbidden", "other"} ELSE {"notfound", "other"}

\* await bot.editMessageText(...) of /sendverify is over
SendVerifyEditResume(h) ==
    /\ h.kind = "message" /\ h.pc = "sv_edit"
    /\ \E r \in EditOutcomes(h.message_id), written \in BOOLEAN :
         CASE r = "ok" ->
                /\ End(h, "returned", <<Send(h.userId, "PromptUpdated")>>)
                /\ UNCHANGED <<lastVerificationMessage, lastVerificationMessageFile, writeFailed>>
           [] r = "notfound" ->
                /\ lastVerificationMessage' = 0
                /\ lastVerificationMessageFile' = saveLastVerificationMessage(0, written)
                /\ writeFailed' = (writeFailed \/ ~written)
                /\ Suspend(h, SendVerifyPosting(h.userId, h.message_id), <<PostPrompt>>)
           [] OTHER ->
                /\ Suspend(h, SendVerifyPosting(h.userId, 0), <<PostPrompt>>)
                /\ UNCHANGED <<lastVerificationMessage, lastVerificationMessageFile, writeFailed>>
    /\ UNCHANGED <<config, verifiedUsers, verifiedUsersFile, verificationSessions,
                   pendingApprovals, channel>>

\* await bot.sendMessage(PUBLIC_CHANNEL_ID, ...) is over: the channel has a new
\* message, or the post failed
SendVerifySendResume(h) ==
    /\ h.kind = "message" /\ h.pc = "sv_send"
    /\ \/ /\ channel.next <= MaxMessageId
          /\ \E written \in BOOLEAN :
               /\ channel' = [live |-> channel.live \cup {channel.next},
                              next |-> channel.next + 1]
               /\ lastVerificationMessage' = channel.next
               /\ lastVerificationMessageFile' =
                      saveLastVerificationMessage(channel.next, written)
               /\ writeFailed' = (writeFailed \/ ~written)
               /\ End(h, "returned", <<Send(h.userId, "PromptSent")>>)
       \/ /\ End(h, "returned", <<Send(h.userId, "PromptFailed")>>)
          /\ UNCHANGED <<lastVerificationMessage, lastVerificationMessageFile, writeFailed,
                         channel>>
    /\ UNCHANGED <<config, verifiedUsers, verifiedUsersFile, verificationSessions,
                   pendingApprovals>>

\* somebody deletes a prompt message from the public channel
ChannelDelete(id) ==
    /\ id \in channel.live
    /\ channel' = [channel EXCEPT !.live = @ \ {id}]
    /\ last' = Running
    /\ UNCHANGED <<config, memory, files, handlers>>

(***************************************************************************)
(* bot.on("callback_query")                                                *)
(***************************************************************************)
\* the branches without the check that the admin pressed
CallbackBranch_noAdminCheck(query) ==
    IF query.data[1] \notin {"approve", "reject"} THEN "other"
    ELSE IF query.data[2] = NaN THEN "invalid"
    ELSE IF ~Has(pendingApprovals, query.data[2]) THEN "expired"
    ELSE query.data[1]

\* the branches without the check that the request still exists
CallbackBranch_noPendingCheck(query) ==
    IF query.from # ADMIN_ID THEN "denied"
    ELSE IF query.data[1] \notin {"approve", "reject"} THEN "other"
    ELSE IF query.data[2] = NaN THEN "invalid"
    ELSE query.data[1]

\* the branch a button press takes, up to the dispatch on the action
CallbackBranch(query) ==
    IF query.from # ADMIN_ID THEN "denied"
    ELSE IF query.data[1] \notin {"approve", "reject"} THEN "other"
    ELSE IF query.data[2] = NaN THEN "invalid"
    ELSE IF ~Has(pendingApprovals, query.data[2]) THEN "expired"
    ELSE query.data[1]

\* the text of the acknowledgement of a press that decides nothing
AckText(branch) ==
    CASE branch = "denied"  -> "AdminOnly"
      [] branch = "invalid" -> "InvalidUserId"
      [] branch = "expired" -> "Expired"
      [] OTHER              -> ""

\* the branches that only acknowledge the press
OnCallbackAck(query) ==
    /\ CallbackBranch(query) \in {"denied", "other", "invalid", "expired"}
    /\ Start(CallbackHandler("c_" \o CallbackBranch(query), query),
             <<Ack(query.from, AckText(CallbackBranch(query)))>>)
    /\ UNCHANGED <<config, memory, files, channel>>

\* saveVerifiedUsers: the file after the write, which may fail
saveVerifiedUsers(users, written) ==
    IF written THEN users ELSE verifiedUsersFile

\* the mark flipped instead of set
MarkVerified_toggle(targetUserIdNum) ==
    IF Truthy(verifiedUsers, targetUserIdNum)
    THEN Delete(verifiedUsers, targetUserIdNum)
    ELSE Put(verifiedUsers, targetUserIdNum, TRUE)

\* the user not marked
MarkVerified_skipped(targetUserIdNum) == verifiedUsers

\* verifiedUsers[targetUserIdNum] = true
MarkVerified(targetUserIdNum) == Put(verifiedUsers, targetUserIdNum, TRUE)

\* approve: approveUserVerification to its first await
OnCallbackApprove(query) ==
    /\ CallbackBranch(query) = "approve"
    /\ LET targetUserIdNum == query.data[2]
       IN  \E written \in BOOLEAN :
             /\ verifiedUsers' = MarkVerified(targetUserIdNum)
             /\ verifiedUsersFile' = saveVerifiedUsers(verifiedUsers', written)
             /\ writeFailed' = (writeFailed \/ ~written)
             /\ Start(CallbackHandler("a_success", query),
                      <<Send(targetUserIdNum, "Approved")>>)
    /\ UNCHANGED <<config, lastVerificationMessage, lastVerificationMessageFile,
                   verificationSessions, pendingApprovals, channel>>

\* reject: rejectUserVerification to its first await
OnCallbackReject(query) ==
    /\ CallbackBranch(query) = "reject"
    /\ Start(CallbackHandler("r_msg", query), <<Send(query.data[2], "Rejected")>>)
    /\ UNCHANGED <<config, memory, files, channel>>

AtCallback(h, pcs) == h.kind = "callback" /\ h.pc \in pcs

Goto(h, pc, cs) == Suspend(h, [h EXCEPT !.pc = pc], cs)

\* an awaited answerCallbackQuery outside any try is over
CallbackAckResume(h) ==
    /\ AtCallback(h, {"c_denied", "c_other", "c_invalid", "c_expired"})
    /\ \E r \in {"ok", "fail"} :
         IF r = "fail" THEN End(h, "threw", <<>>)
         ELSE IF h.pc = "c_expired"
         THEN Goto(h, "c_edit_processed",
                   <<Call("editMessageText", ADMIN_ID, "Processed", <<>>)>>)
         ELSE End(h, "returned", <<>>)
    /\ UNCHANGED <<config, memory, files, channel>>

\* the edit of the admin's message is over: its failure is caught
CallbackEditResume(h) ==
    /\ AtCallback(h, {"c_edit_processed", "c_edit_result"})
    /\ End(h, "returned", <<>>)
    /\ UNCHANGED <<config, memory, files, channel>>

\* the acknowledgement sent from a catch block of approve/rejectUserVerification
AckError(h) ==
    Ack(h.query.from,
        IF h.query.data[1] = "approve" THEN "ApprovedMessageError" ELSE "RejectedMessageError")

\* await bot.sendMessage(target, "congratulations") is over
ApproveSuccessResume(h) ==
    /\ AtCallback(h, {"a_success"})
    /\ \E r \in {"ok", "fail"} :
         IF r = "fail" THEN Goto(h, "ack_err", <<AckError(h)>>)
         ELSE IF PRIVATE_GROUP_ID
         THEN Goto(h, "a_invite", <<Send(h.query.data[2], "InviteLink")>>)
         ELSE Goto(h, "ack", <<Ack(h.query.from, "Approved")>>)
    /\ UNCHANGED <<config, memory, files, channel>>

\* await bot.sendMessage(target, invite link) is over
ApproveInviteResume(h) ==
    /\ AtCallback(h, {"a_invite"})
    /\ \E r \in {"ok", "fail", "alreadyParticipant"} :
         CASE r = "ok" -> Goto(h, "ack", <<Ack(h.query.from, "Approved")>>)
           [] r = "alreadyParticipant" ->
                Goto(h, "a_already", <<Send(h.query.data[2], "AlreadyMember")>>)
           [] OTHER ->
                Goto(h, "a_fallback_user", <<Send(h.query.data[2], "InviteFallback")>>)
    /\ UNCHANGED <<config, memory, files, channel>>

\* an awaited send inside catch (groupError) is over
ApproveFallbackResume(h) ==
    /\ AtCallback(h, {"a_already", "a_fallback_user", "a_fallback_admin"})
    /\ \E r \in {"ok", "fail"} :
         IF r = "fail" THEN Goto(h, "ack_err", <<AckError(h)>>)
         ELSE IF h.pc = "a_fallback_user"
         THEN Goto(h, "a_fallback_admin", <<Send(ADMIN_ID, "InviteWarning")>>)
         ELSE Goto(h, "ack", <<Ack(h.query.from, "Approved")>>)
    /\ UNCHANGED <<config, memory, files, channel>>

\* await bot.sendMessage(target, "rejected") is over
RejectMessageResume(h) ==
    /\ AtCallback(h, {"r_msg"})
    /\ \E r \in {"ok", "fail"} :
         IF r = "ok"
         THEN Goto(h, "ack", <<Ack(h.query.from, "Rejected")>>)
         ELSE Goto(h, "ack_err", <<AckError(h)>>)
    /\ UNCHANGED <<config, memory, files, channel>>

\* approve/rejectUserVerification returned: the entry is deleted and the
\* admin's message edited
Decided(h) ==
    /\ pendingApprovals' = Delete(pendingApprovals, h.query.data[2])
    /\ Goto(h, "c_edit_result", <<Call("editMessageText", ADMIN_ID, "Result", <<>>)>>)

\* await bot.answerCallbackQuery(...) at the end of the try block is over
DecisionAckResume(h) ==
    /\ AtCallback(h, {"ack"})
    /\ \E r \in {"ok", "fail"} :
         IF r = "ok"
         THEN Decided(h)
         ELSE /\ Goto(h, "ack_err", <<AckError(h)>>)
              /\ UNCHANGED pendingApprovals
    /\ UNCHANGED <<config, verifiedUsers, lastVerificationMessage, verificationSessions,
                   files, channel>>

\* await bot.answerCallbackQuery(...) inside the catch block is over: when it
\* fails the error leaves approve/rejectUserVerification and the listener
DecisionAckErrResume(h) ==
    /\ AtCallback(h, {"ack_err"})
    /\ \E r \in {"ok", "fail"} :
         IF r = "ok"
         THEN Decided(h)
         ELSE /\ End(h, "threw", <<>>)
              /\ UNCHANGED pendingApprovals
    /\ UNCHANGED <<config, verifiedUsers, lastVerificationMessage, verificationSessions,
                   files, channel>>

(***************************************************************************)
(* The verification workflow: /start, answers and the admin's buttons      *)
(***************************************************************************)
Next ==
    \/ \E msg \in VerifyMsgs : OnMessage(msg)
    \/ \E query \in Queries : OnCallbackAck(query)
    \/ \E query \in Queries : OnCallbackApprove(query)
    \/ \E query \in Queries : OnCallbackReject(query)
    \/ \E h \in BagToSet(handlers) : MessageIgnored(h)
    \/ \E h \in BagToSet(handlers) : MessageReply(h)
    \/ \E h \in BagToSet(handlers) : MessageGeneral(h)
    \/ \E h \in BagToSet(handlers) : GenerateResume(h)
    \/ \E h \in BagToSet(handlers) : MessageAnswer(h)
    \/ \E h \in BagToSet(handlers) : AnswerAdminResume(h)
    \/ \E h \in BagToSet(handlers) : AnswerConfirmResume(h)
    \/ \E h \in BagToSet(handlers) : MessageOtherCommand(h)
    \/ \E h \in BagToSet(handlers) : handleStartCommandForVerification(h)
    \/ \E h \in BagToSet(handlers) : StartQuestionResume(h)
    \/ \E h \in BagToSet(handlers) : CallbackAckResume(h)
    \/ \E h \in BagToSet(handlers) : CallbackEditResume(h)
    \/ \E h \in BagToSet(handlers) : ApproveSuccessResume(h)
    \/ \E h \in BagToSet(handlers) : ApproveInviteResume(h)
    \/ \E h \in BagToSet(handlers) : ApproveFallbackResume(h)
    \/ \E h \in BagToSet(handlers) : RejectMessageResume(h)
    \/ \E h \in BagToSet(handlers) : DecisionAckResume(h)
    \/ \E h \in BagToSet(handlers) : DecisionAckErrResume(h)

Spec == Init /\ [][Next]_vars

(***************************************************************************)
(* Every kind of event: /start, an answer, a reply, the commands /chat and *)
(* /sendverify, the admin's buttons and the public channel, which hands    *)
(* out one message id here                                                 *)
(***************************************************************************)
\* how many handlers may be suspended at the same time under SpecAll
MaxInFlightAll == 1

AllMsgs ==
    {Msg(42, t, TRUE, FALSE, FALSE, FALSE) : t \in {T_start, T_hi}}
    \cup {Msg(ADMIN_ID, t, TRUE, FALSE, FALSE, FALSE) : t \in {T_chat, T_sendverify}}
    \cup {Msg(42, T_hi, TRUE, TRUE, FALSE, FALSE),
          Msg(42, T_start, FALSE, FALSE, FALSE, FALSE)}

AllQueries ==
    {[from |-> a, data |-> CallbackData(act, 42)] :
        a \in UserIds, act \in {"approve", "reject"}}

NextAll ==
    \/ InFlight < MaxInFlightAll /\ \E msg \in AllMsgs : OnMessage(msg)
    \/ InFlight < MaxInFlightAll /\ \E query \in AllQueries : OnCallbackAck(query)
    \/ InFlight < MaxInFlightAll /\ \E query \in AllQueries : OnCallbackApprove(query)
    \/ InFlight < MaxInFlightAll /\ \E query \in AllQueries : OnCallbackReject(query)
    \/ \E h \in BagToSet(handlers) : MessageIgnored(h)
    \/ \E h \in BagToSet(handlers) : MessageReply(h)
    \/ \E h \in BagToSet(handlers) : MessageGeneral(h)
    \/ \E h \in BagToSet(handlers) : GenerateResume(h)
    \/ \E h \in BagToSet(handlers) : MessageAnswer(h)
    \/ \E h \in BagToSet(handlers) : AnswerAdminResume(h)
    \/ \E h \in BagToSet(handlers) : AnswerConfirmResume(h)
    \/ \E h \in BagToSet(handlers) : MessageOtherCommand(h)
    \/ \E h \in BagToSet(handlers) : handleStartCommandForVerification(h)
    \/ \E h \in BagToSet(handlers) : StartQuestionResume(h)
    \/ \E h \in BagToSet(handlers) : handleChatCommand(h)
    \/ \E h \in BagToSet(handlers) : handleSendVerifyCommand(h)
    \/ \E h \in BagToSet(handlers) : SendVerifyEditResume(h)
    \/ \E h \in BagToSet(handlers) : SendVerifySendResume(h) /\ channel'.next <= 2
    \/ \E h \in BagToSet(handlers) : CallbackAckResume(h)
    \/ \E h \in BagToSet(handlers) : CallbackEditResume(h)
    \/ \E h \in BagToSet(handlers) : ApproveSuccessResume(h)
    \/ \E h \in BagToSet(handlers) : ApproveInviteResume(h)
    \/ \E h \in BagToSet(handlers) : ApproveFallbackResume(h)
    \/ \E h \in BagToSet(handlers) : RejectMessageResume(h)
    \/ \E h \in BagToSet(handlers) : DecisionAckResume(h)
    \/ \E h \in BagToSet(handlers) : DecisionAckErrResume(h)
    \/ \E id \in 1..MaxMessageId : ChannelDelete(id)

SpecAll == Init /\ [][NextAll]_vars

(***************************************************************************)
(* The public prompt: /sendverify from the admin and from user 42, and the *)
(* deletion of prompt messages from the channel                            *)
(***************************************************************************)
BroadcastMsgs ==
    {Msg(a, T_sendverify, TRUE, FALSE, FALSE, FALSE) : a \in UserIds}

NextBroadcast ==
    \/ \E msg \in BroadcastMsgs : OnMessage(msg)
    \/ \E h \in BagToSet(handlers) : handleSendVerifyCommand(h)
    \/ \E h \in BagToSet(handlers) : SendVerifyEditResume(h)
    \/ \E h \in BagToSet(handlers) : SendVerifySendResume(h)
    \/ \E id \in 1..MaxMessageId : ChannelDelete(id)

SpecBroadcast == Init /\ [][NextBroadcast]_vars

(***************************************************************************)
(* The process ends (SIGINT, SIGTERM, process.exit, a crash) and is started *)
(* again: the handlers in flight are gone, the module-level state is built  *)
(* anew and the two documents are loaded; the files and the channel are as  *)
(* the old process left them                                                *)
(***************************************************************************)
Restart ==
    /\ handlers' = EmptyBag
    /\ last' = Running
    /\ verificationSessions' = <<>>
    /\ pendingApprovals' = <<>>
    /\ verifiedUsers' = loadVerifiedUsers(verifiedUsersFile)
    /\ lastVerificationMessage' = loadLastVerificationMessage(lastVerificationMessageFile)
    /\ writeFailed' = FALSE
    /\ UNCHANGED <<config, verifiedUsersFile, lastVerificationMessageFile, channel>>

NextRestart == NextAll \/ Restart

SpecRestart == Init /\ [][NextRestart]_vars

(***************************************************************************)
(* The runs of one verification in which every transport call succeeds:    *)
(* each await of a send or an acknowledgement resumes on its success path  *)
(***************************************************************************)
HappyMsgs == {Msg(42, t, TRUE, FALSE, FALSE, FALSE) : t \in {T_start, T_hi}}

HappyQueries == {[from |-> ADMIN_ID, data |-> CallbackData("approve", 42)]}

\* the step entered no catch block and let no error out of the listener
EveryCallSucceeds ==
    /\ last'.how # "threw"
    /\ \A i \in 1..Len(last'.calls) : last'.calls[i].text \notin {"StartFailed", "AnswerError"}
    /\ \A x \in BagToSet(handlers') :
         x.pc \notin {"ack_err", "a_already", "a_fallback_user", "a_fallback_admin"}

NextHappy ==
    \/ \E msg \in HappyMsgs : OnMessage(msg)
    \/ \E h \in BagToSet(handlers) : MessageIgnored(h)
    \/ \E h \in BagToSet(handlers) : MessageGeneral(h)
    \/ \E h \in BagToSet(handlers) : GenerateResume(h)
    \/ \E h \in BagToSet(handlers) : handleStartCommandForVerification(h)
    \/ \E h \in BagToSet(handlers) : StartQuestionResume(h) /\ EveryCallSucceeds
    \/ \E h \in BagToSet(handlers) : MessageAnswer(h)
    \/ \E h \in BagToSet(handlers) : AnswerAdminResume(h) /\ EveryCallSucceeds
    \/ \E h \in BagToSet(handlers) : AnswerConfirmResume(h) /\ EveryCallSucceeds
    \/ \E query \in HappyQueries : OnCallbackAck(query)
    \/ \E query \in HappyQueries : OnCallbackApprove(query)
    \/ \E h \in BagToSet(handlers) : CallbackAckResume(h) /\ EveryCallSucceeds
    \/ \E h \in BagToSet(handlers) : CallbackEditResume(h)
    \/ \E h \in BagToSet(handlers) : ApproveSuccessResume(h) /\ EveryCallSucceeds
    \/ \E h \in BagToSet(handlers) : ApproveInviteResume(h) /\ EveryCallSucceeds
    \/ \E h \in BagToSet(handlers) : DecisionAckResume(h) /\ EveryCallSucceeds

SpecHappy == Init /\ [][NextHappy]_vars

(***************************************************************************)
(* Submissions following one another: a button press carries the message   *)
(* its button is attached to (query.message), here the answer shown in it. *)
(* The admin presses a button of the request of the entry now pending,     *)
(* once that request has been delivered; a request that is still being     *)
(* sent has a listener awaiting sendVerificationAnswerToAdmin              *)
(***************************************************************************)
ResubmitMsgs == {Msg(42, t, TRUE, FALSE, FALSE, FALSE) : t \in {T_start, T_hi}}

ResubmitQueries ==
    {[from |-> ADMIN_ID, data |-> CallbackData(act, 42), message |-> Trim(t)] :
        act \in {"approve", "reject"}, t \in {T_start, T_hi}}

\* the button of query is on the delivered request of the pending entry
OnDeliveredRequest(query) ==
    LET u == query.data[2]
    IN  /\ Has(pendingApprovals, u)
        /\ pendingApprovals[u].answer = query.message
        /\ \A h \in BagToSet(handlers) :
              ~(h.kind = "message" /\ h.pc = "m_ans_admin" /\ h.userId = u)

NextResubmit ==
    \/ \E msg \in ResubmitMsgs : OnMessage(msg)
    \/ \E h \in BagToSet(handlers) : MessageIgnored(h)
    \/ \E h \in BagToSet(handlers) : MessageGeneral(h)
    \/ \E h \in BagToSet(handlers) : GenerateResume(h)
    \/ \E h \in BagToSet(handlers) : handleStartCommandForVerification(h)
    \/ \E h \in BagToSet(handlers) : StartQuestionResume(h)
    \/ \E h \in BagToSet(handlers) : MessageAnswer(h)
    \/ \E h \in BagToSet(handlers) : AnswerAdminResume(h)
    \/ \E h \in BagToSet(handlers) : AnswerConfirmResume(h)
    \/ \E query \in ResubmitQueries : OnDeliveredRequest(query) /\ OnCallbackApprove(query)
    \/ \E query \in ResubmitQueries : OnDeliveredRequest(query) /\ OnCallbackReject(query)
    \/ \E h \in BagToSet(handlers) : CallbackEditResume(h)
    \/ \E h \in BagToSet(handlers) : ApproveSuccessResume(h)
    \/ \E h \in BagToSet(handlers) : ApproveInviteResume(h)
    \/ \E h \in BagToSet(handlers) : ApproveFallbackResume(h)
    \/ \E h \in BagToSet(handlers) : RejectMessageResume(h)
    \/ \E h \in BagToSet(handlers) : DecisionAckResume(h)
    \/ \E h \in BagToSet(handlers) : DecisionAckErrResume(h)

SpecResubmit == Init /\ [][NextResubmit]_vars

(***************************************************************************)
(* The earlier revision kept in the same file (lines 632-1073): the         *)
(* verification starts with the button of the channel prompt, the answer   *)
(* is taken by the message listener of that revision, and the admin        *)
(* rejects.  Its state is loaded and kept as in the later revision.  The   *)
(* events are the start button and a plain text of user 42 and the reject  *)
(* button pressed by the admin.                                            *)
(***************************************************************************)
EarlierMsgs == {Msg(42, T_hi, TRUE, FALSE, FALSE, FALSE)}

EarlierStartQueries == {[from |-> 42, data |-> <<"start_verification_process">>]}

EarlierRejectQueries == {[from |-> ADMIN_ID, data |-> CallbackData("reject", 42)]}

\* a handler that runs to its end without an await that yields to an event
RunsThrough(cs) ==
    /\ last' = [how |-> "returned", calls |-> cs]
    /\ UNCHANGED handlers

\* the bot.answerCallbackQuery(query.id) that ends the callback_query listener
EarlierFinalAck(query) == Ack(query.from, "")

\* handleStartVerificationCallback to its await: only verifiedUsers is tested
handleStartVerificationCallback(query) ==
    /\ query.data = <<"start_verification_process">>
    /\ LET userId == query.from
       IN  IF Truthy(verifiedUsers, userId)
           THEN /\ RunsThrough(<<Send(userId, "AlreadyVerified"), EarlierFinalAck(query)>>)
                /\ UNCHANGED verificationSessions
           ELSE /\ verificationSessions' =
                       Put(verificationSessions, userId, [question |-> verificationQuestion])
                /\ Start(CallbackHandler("e_question", query),
                         <<Call("sendMessage", userId, "Question", <<verificationQuestion>>)>>)
    /\ UNCHANGED <<config, verifiedUsers, lastVerificationMessage, pendingApprovals,
                   files, channel>>

\* await bot.sendMessage(userId, question) is over: the catch only reports
EarlierStartQuestionResume(h) ==
    /\ AtCallback(h, {"e_question"})
    /\ \E r \in {"ok", "fail"} :
         End(h, "returned",
             IF r = "ok" THEN <<EarlierFinalAck(h.query)>>
             ELSE <<Send(h.query.from, "StartFailed"), EarlierFinalAck(h.query)>>)
    /\ UNCHANGED <<config, memory, files, channel>>

\* the answer branch to its first await: the entry is stored, the session kept
EarlierMessageAnswer(h) ==
    /\ AtTopic(h)
    /\ Trim(h.msg.text) # <<>> /\ ~h.msg.reply
    /\ Has(verificationSessions, h.msg.from)
    /\ LET userId    == h.msg.from
           userInput == Trim(h.msg.text)
           question  == verificationSessions[userId].question
       IN  /\ pendingApprovals' =
                  Put(pendingApprovals, userId, [question |-> question, answer |-> userInput])
           /\ Suspend(h, MessageHandler("e_ans_admin", userId),
                      <<DecisionRequest(userId, question, userInput)>>)
    /\ UNCHANGED <<config, verifiedUsers, lastVerificationMessage, verificationSessions,
                   files, channel>>

\* a text that is no command, from a user without a session: nothing to do
EarlierMessageNone(h) ==
    /\ AtTopic(h)
    /\ \/ Trim(h.msg.text) = <<>>
       \/ /\ ~h.msg.reply
          /\ ~Has(verificationSessions, h.msg.from)
          /\ ~IsCommand(Trim(h.msg.text))
    /\ End(h, "returned", <<>>)
    /\ UNCHANGED <<config, memory, files, channel>>

\* await sendVerificationAnswerToAdmin(...) is over: it reports its own
\* failure and never throws, so the confirmation is sent in either case
EarlierAnswerAdminResume(h) ==
    /\ h.kind = "message" /\ h.pc = "e_ans_admin"
    /\ Suspend(h, MessageHandler("e_ans_confirm", h.userId),
               <<Send(h.userId, "AnswerForwarded")>>)
    /\ UNCHANGED <<config, memory, files, channel>>

\* await bot.sendMessage(userId, "answer forwarded") is over: the session is
\* deleted after it, and kept when it failed
EarlierAnswerConfirmResume(h) ==
    /\ h.kind = "message" /\ h.pc = "e_ans_confirm"
    /\ \E r \in {"ok", "fail"} :
         IF r = "ok"
         THEN /\ verificationSessions' = Delete(verificationSessions, h.userId)
              /\ End(h, "returned", <<>>)
         ELSE /\ End(h, "returned", <<Send(h.userId, "AnswerError")>>)
              /\ UNCHANGED verificationSessions
    /\ UNCHANGED <<config, verifiedUsers, lastVerificationMessage, pendingApprovals,
                   files, channel>>

\* handleApprovalRejectionCallback, reject: the press of a non-admin and the
\* press without an entry are answered at once, otherwise
\* rejectUserVerification runs to its await
EarlierOnCallbackReject(query) ==
    /\ query.data[1] = "reject"
    /\ IF query.from # ADMIN_ID
       THEN RunsThrough(<<Ack(query.from, "AdminOnly"), EarlierFinalAck(query)>>)
       ELSE IF ~Has(pendingApprovals, query.data[2])
       THEN RunsThrough(<<Ack(query.from, "Expired"), EarlierFinalAck(query)>>)
       ELSE Start(CallbackHandler("e_r_msg", query), <<Send(query.data[2], "Rejected")>>)
    /\ UNCHANGED <<config, memory, files, channel>>

\* await bot.sendMessage(target, "rejected") is over: the press is
\* acknowledged and the entry deleted
EarlierRejectMessageResume(h) ==
    /\ AtCallback(h, {"e_r_msg"})
    /\ pendingApprovals' = Delete(pendingApprovals, h.query.data[2])
    /\ \E r \in {"ok", "fail"} :
         End(h, "returned",
             <<Ack(h.query.from, IF r = "ok" THEN "Rejected" ELSE "RejectedMessageError"),
               EarlierFinalAck(h.query)>>)
    /\ UNCHANGED <<config, verifiedUsers, lastVerificationMessage, verificationSessions,
                   files, channel>>

NextEarlier ==
    \/ \E msg \in EarlierMsgs : OnMessage(msg)
    \/ \E query \in EarlierStartQueries : handleStartVerificationCallback(query)
    \/ \E query \in EarlierRejectQueries : EarlierOnCallbackReject(query)
    \/ \E h \in BagToSet(handlers) : EarlierStartQuestionResume(h)
    \/ \E h \in BagToSet(handlers) : EarlierMessageAnswer(h)
    \/ \E h \in BagToSet(handlers) : EarlierMessageNone(h)
    \/ \E h \in BagToSet(handlers) : EarlierAnswerAdminResume(h)
    \/ \E h \in BagToSet(handlers) : EarlierAnswerConfirmResume(h)
    \/ \E h \in BagToSet(handlers) : EarlierRejectMessageResume(h)

SpecEarlier == Init /\ [][NextEarlier]_vars

(***************************************************************************)
(* Chat-style requests and the commands, from the admin and from user 42:  *)
(* /chat with and without a query, a reply, a plain private text, and      *)
(* /sendverify from user 42                                                *)
(***************************************************************************)
ChatMsgs ==
    {Msg(42, t, TRUE, FALSE, FALSE, FALSE) : t \in {T_chat, T_sendverify, T_hi}}
    \cup {Msg(42, T_hi, TRUE, TRUE, FALSE, FALSE)}
    \cup {Msg(ADMIN_ID, t, TRUE, FALSE, FALSE, FALSE) : t \in {T_chat, T_chatEmpty}}

NextChat ==
    \/ \E msg \in ChatMsgs : OnMessage(msg)
    \/ \E h \in BagToSet(handlers) : MessageIgnored(h)
    \/ \E h \in BagToSet(handlers) : MessageReply(h)
    \/ \E h \in BagToSet(handlers) : MessageGeneral(h)
    \/ \E h \in BagToSet(handlers) : GenerateResume(h)
    \/ \E h \in BagToSet(handlers) : handleChatCommand(h)
    \/ \E h \in BagToSet(handlers) : handleSendVerifyCommand(h)

SpecChat == Init /\ [][NextChat]_vars

(***************************************************************************)
(* Vocabulary of the properties: what a step did to a handler              *)
(***************************************************************************)
\* handler h ran in this step: a copy of it left the bag
Stepped(h) == CopiesIn(h, handlers') < CopiesIn(h, handlers)

\* handler h ran to its end in this step
Ends(h) == handlers' = handlers (-) SetToBag({h}) /\ last'.how # "running"

\* this step is the callback_query listener taking the press `query`
Pressed(query) ==
    /\ BagCardinality(handlers') = BagCardinality(handlers) + 1
    /\ \E h \in BagToSet(handlers') :
         /\ h.kind = "callback" /\ h.query = query
         /\ CopiesIn(h, handlers') > CopiesIn(h, handlers)

\* h is the message listener about to route a /start command
IsStartMsg(h) ==
    /\ AtTopic(h)
    /\ ~h.msg.is_bot
    /\ IsCommand(Trim(h.msg.text))
    /\ CommandName(Trim(h.msg.text)) = <<"s", "t", "a", "r", "t">>

\* h is a callback handler past the dispatch on `action` (lines 452-456)
Deciding(h, action) ==
    /\ h.kind = "callback"
    /\ h.query.data[1] = action
    /\ h.pc \in {"a_success", "a_invite", "a_already", "a_fallback_user",
                 "a_fallback_admin", "r_msg", "ack", "ack_err", "c_edit_result"}

\* h has executed `delete pendingApprovals[targetUserIdNum]` (line 459)
HasDeletedEntry(h) == h.pc = "c_edit_result"

(***************************************************************************)
(* C1.  At every suspension point no user has both a verification session  *)
(* and a pending approval.                                                 *)
(***************************************************************************)
C1_SessionXorPending ==
    \A u \in UserIds : ~(Has(verificationSessions, u) /\ Has(pendingApprovals, u))

\* the answer has moved the session to pendingApprovals while the /start
\* handler that opened it is still awaiting the delivery of the question
C1_Witness ==
    /\ Has(pendingApprovals, 42)
    /\ \E h \in BagToSet(handlers) : h.kind = "message" /\ h.pc = "s_question"

(***************************************************************************)
(* C2.  A press of an approve/reject button by anyone but the admin leaves *)
(* the sessions, the pending approvals, the verified users (memory and     *)
(* file) and the prompt pointer as they are; the only call it issues is    *)
(* the denial acknowledgement to the presser, and nothing else follows.    *)
(***************************************************************************)
C2_NonAdminPressDenied ==
    [][ /\ \A query \in Queries :
             (query.from # ADMIN_ID /\ Pressed(query)) =>
                 /\ UNCHANGED <<memory, files, channel>>
                 /\ handlers' = handlers (+) SetToBag({
                        [kind |-> "callback", pc |-> "c_denied", query |-> query,
                         calls |-> <<[op |-> "answerCallbackQuery", to |-> query.from,
                                      text |-> "AdminOnly", extra |-> <<>>]>>]})
        /\ \A h \in BagToSet(handlers) :
             (h.kind = "callback" /\ h.query.from # ADMIN_ID /\ Stepped(h)) =>
                 /\ UNCHANGED <<memory, files, channel>>
                 /\ Ends(h)
                 /\ last'.calls = <<>>
      ]_vars

\* user 42, whose request is pending, pressed the approve button on it and
\* the denial is on its way
C2_Witness ==
    /\ Has(pendingApprovals, 42)
    /\ ~Truthy(verifiedUsers, 42)
    /\ \E h \in BagToSet(handlers) :
         /\ h.kind = "callback" /\ h.pc = "c_denied"
         /\ h.query = [from |-> 42, data |-> CallbackData("approve", 42)]

C4_ApprovalEndsResolved ==
    [][ \A h \in BagToSet(handlers) :
          (Deciding(h, "approve") /\ Ends(h)) =>
              /\ Truthy(verifiedUsers', h.query.data[2])
              /\ ~writeFailed' => Truthy(verifiedUsersFile', h.query.data[2])
              /\ ~Has(pendingApprovals', h.query.data[2])
      ]_vars

(***************************************************************************)
(* C5.  While a transport call of an approval is outstanding, the target   *)
(* is already marked in verifiedUsers and, unless a write failed, in the   *)
(* file: the update and the write precede the first transport call.        *)
(***************************************************************************)
C5_MarkedBeforeTransport ==
    \A h \in BagToSet(handlers) :
        Deciding(h, "approve") =>
            /\ Truthy(verifiedUsers, h.query.data[2])
            /\ ~writeFailed => Truthy(verifiedUsersFile, h.query.data[2])

\* the first transport call of an approval, the success message, is
\* outstanding and the file already holds the user
C5_Witness ==
    /\ ~writeFailed
    /\ Truthy(verifiedUsersFile, 42)
    /\ \E h \in BagToSet(handlers) :
         /\ Deciding(h, "approve") /\ h.pc = "a_success"
         /\ h.calls = <<Send(42, "Approved")>>

(***************************************************************************)
(* C6.  The handler of an admin's reject press for a pending u never       *)
(* changes the verified users, in memory or on disk, and has removed       *)
(* pendingApprovals[u] when it ends.                                       *)
(***************************************************************************)
C6_RejectionEndsResolved ==
    [][ \A h \in BagToSet(handlers) :
          (Deciding(h, "reject") /\ Stepped(h)) =>
              /\ UNCHANGED <<verifiedUsers, verifiedUsersFile>>
              /\ Ends(h) => HasDeletedEntry(h)
      ]_vars

C8_SecondStartRejected ==
    [][ \A h \in BagToSet(handlers) :
          (/\ IsStartMsg(h) /\ h.msg.private
           /\ ~Truthy(verifiedUsers, h.msg.from)
           /\ Has(verificationSessions, h.msg.from)
           /\ Stepped(h)) =>
              /\ verificationSessions' = verificationSessions
              /\ ~Has(pendingApprovals', h.msg.from)
              /\ Ends(h)
              /\ last'.calls = <<Send(h.msg.from, "AlreadyInProcess")>>
      ]_vars

(***************************************************************************)
(* C9.  /start from a user with a pending approval creates no session and  *)
(* leaves the pending entry unchanged.                                     *)
(***************************************************************************)
C9_PendingStartIsNoOp ==
    [][ \A h \in BagToSet(handlers) :
          (IsStartMsg(h) /\ Has(pendingApprovals, h.msg.from) /\ Stepped(h)) =>
              /\ ~Has(verificationSessions', h.msg.from)
              /\ pendingApprovals' = pendingApprovals
              /\ Ends(h)
      ]_vars

\* 42, whose request is pending, sent /start in a private chat and was told
\* that a verification is already in process
C9_Witness ==
    /\ Has(pendingApprovals, 42)
    /\ ~Has(verificationSessions, 42)
    /\ last = [how |-> "returned", calls |-> <<Send(42, "AlreadyInProcess")>>]

(***************************************************************************)
(* C10.  A text that is not a command, from a user with an open session,   *)
(* moves the user from verificationSessions to pendingApprovals with the   *)
(* text as the answer, and the decision request (question, answer, approve *)
(* and reject buttons carrying the user's id) is sent to the admin.        *)
(***************************************************************************)
\* the step took h's text as the answer of its sender
Answered(h) ==
    LET userId   == h.msg.from
        question == verificationSessions[userId].question
        answer   == Trim(h.msg.text)
    IN  /\ ~Has(verificationSessions', userId)
        /\ Has(pendingApprovals', userId)
        /\ pendingApprovals'[userId] = [question |-> question, answer |-> answer]
        /\ handlers' = (handlers (-) SetToBag({h})) (+) SetToBag({
               [kind |-> "message", pc |-> "m_ans_admin", userId |-> userId,
                calls |-> <<[op |-> "sendMessage", to |-> ADMIN_ID,
                             text |-> "DecisionRequest",
                             extra |-> <<userId, question, answer,
                                         <<"approve", userId>>,
                                         <<"reject", userId>>>>]>>]})

\* h is the message listener about to route a text that is not a command,
\* and its sender has an open session
TextInSession(h) ==
    /\ AtTopic(h)
    /\ h.msg.text # <<>> /\ ~h.msg.is_bot
    /\ ~IsCommand(Trim(h.msg.text))
    /\ Has(verificationSessions, h.msg.from)

\* C10 as stated: any such text, wherever it is sent
C10_AnyTextAnswers ==
    [][ \A h \in BagToSet(handlers) :
          (TextInSession(h) /\ Stepped(h)) => Answered(h) ]_vars

\* C10 for a text sent in the private chat and not as a reply to a message:
\* the answer is the trimmed text
C10_PrivateTextAnswers ==
    [][ \A h \in BagToSet(handlers) :
          (TextInSession(h) /\ h.msg.private /\ ~h.msg.reply /\ Stepped(h)) =>
              Answered(h) ]_vars

\* the text " hi " sent in the private chat was taken as the answer "hi" and
\* the decision request is on its way to the admin
C10_Witness ==
    /\ Has(pendingApprovals, 42)
    /\ pendingApprovals[42] = [question |-> verificationQuestion, answer |-> T_hi]
    /\ \E h \in BagToSet(handlers) :
         /\ h.kind = "message" /\ h.pc = "m_ans_admin"
         /\ h.calls = <<DecisionRequest(42, verificationQuestion, T_hi)>>

(***************************************************************************)
(* C11.  A text that is not a command, from a user without a session,      *)
(* leaves verificationSessions, pendingApprovals and verifiedUsers         *)
(* unchanged and creates no pending approval and no decision request.      *)
(***************************************************************************)
\* h is the message listener about to route a text that is not a command,
\* and its sender has no session
TextNoSession(h) ==
    /\ AtTopic(h)
    /\ h.msg.text # <<>> /\ ~h.msg.is_bot
    /\ ~IsCommand(Trim(h.msg.text))
    /\ ~Has(verificationSessions, h.msg.from)

\* the step handed h's text to the chat completion
HandedToChat(h) ==
    handlers' = (handlers (-) SetToBag({h})) (+) SetToBag({
        [kind |-> "message", pc |-> "generate", userId |-> h.msg.from,
         calls |-> <<[op |-> "sendChatAction", to |-> h.msg.from,
                      text |-> "typing", extra |-> <<>>],
                     [op |-> "complete", to |-> 0, text |-> "Completion",
                      extra |-> <<Trim(h.msg.text)>>]>>]})

IssuedBy(h) ==
    IF Ends(h) THEN last'.calls
    ELSE LET h2 == CHOOSE x \in BagToSet(handlers') :
                       CopiesIn(x, handlers') > CopiesIn(x, handlers)
         IN  h2.calls

C12_ExpiredPressChangesNothing ==
    [][ /\ \A query \in Queries :
             (/\ query.from = ADMIN_ID
              /\ query.data[1] \in {"approve", "reject"}
              /\ query.data[2] # NaN
              /\ ~Has(pendingApprovals, query.data[2])
              /\ Pressed(query)) =>
                 /\ UNCHANGED <<memory, files, channel>>
                 /\ handlers' = handlers (+) SetToBag({
                        [kind |-> "callback", pc |-> "c_expired", query |-> query,
                         calls |-> <<[op |-> "answerCallbackQuery", to |-> ADMIN_ID,
                                      text |-> "Expired", extra |-> <<>>]>>]})
        /\ \A h \in BagToSet(handlers) :
             (/\ h.kind = "callback" /\ h.pc \in {"c_expired", "c_edit_processed"}
              /\ Stepped(h)) =>
                 /\ UNCHANGED <<memory, files, channel>>
                 /\ \A i \in 1..Len(IssuedBy(h)) : IssuedBy(h)[i].to = ADMIN_ID
      ]_vars

\* a double click: the first reject press has removed the entry and awaits
\* the edit of the admin's message, the second press is acknowledged as expired
C12_Witness ==
    /\ ~Has(pendingApprovals, 42)
    /\ \E h \in BagToSet(handlers) :
         /\ Deciding(h, "reject") /\ HasDeletedEntry(h)
         /\ h.query = [from |-> ADMIN_ID, data |-> CallbackData("reject", 42)]
    /\ \E h \in BagToSet(handlers) :
         /\ h.kind = "callback" /\ h.pc = "c_expired"
         /\ h.query = [from |-> ADMIN_ID, data |-> CallbackData("reject", 42)]

(***************************************************************************)
(* C13.  At most one decision takes effect for a pending approval: while   *)
(* the handler of a press for u runs its outcome, another press for u by   *)
(* the admin is acknowledged as expired and runs no outcome, so u is not   *)
(* sent two outcome messages and is not both approved and rejected.        *)
(***************************************************************************)
C13_OneDecisionPerEntry ==
    [][ \A query \in Queries :
          (/\ query.from = ADMIN_ID
           /\ query.data[1] \in {"approve", "reject"}
           /\ \E h \in BagToSet(handlers) :
                /\ Deciding(h, "approve") \/ Deciding(h, "reject")
                /\ h.query.data[2] = query.data[2]
                /\ ~HasDeletedEntry(h)
           /\ Pressed(query)) =>
              /\ UNCHANGED <<memory, files>>
              /\ handlers' = handlers (+) SetToBag({
                     [kind |-> "callback", pc |-> "c_expired", query |-> query,
                      calls |-> <<[op |-> "answerCallbackQuery", to |-> ADMIN_ID,
                                   text |-> "Expired", extra |-> <<>>]>>]})
      ]_vars

(***************************************************************************)
(* C14.  A handler of the admin's approve or reject press that has passed  *)
(* the existence check has removed pendingApprovals[u] when it ends,       *)
(* whatever downstream transport calls fail.                               *)
(***************************************************************************)
C14_DecisionRemovesEntry ==
    [][ \A h \in BagToSet(handlers) :
          ((Deciding(h, "approve") \/ Deciding(h, "reject")) /\ Ends(h)) =>
              HasDeletedEntry(h)
      ]_vars

(***************************************************************************)
(* C15.  With a private group configured, once the delivery of the invite  *)
(* link has failed and the fallback invite message to the user has been    *)
(* issued, the warning to the admin is issued next, and the user stays     *)
(* verified in memory and, unless the write failed, on disk.               *)
(***************************************************************************)
C15_InviteFailureReported ==
    [][ \A h \in BagToSet(handlers) :
          (/\ Deciding(h, "approve") /\ h.pc = "a_fallback_user"
           /\ h.calls = <<Send(h.query.data[2], "InviteFallback")>>
           /\ Stepped(h)) =>
              /\ PRIVATE_GROUP_ID
              /\ Truthy(verifiedUsers', h.query.data[2])
              /\ ~writeFailed' => Truthy(verifiedUsersFile', h.query.data[2])
              /\ handlers' = (handlers (-) SetToBag({h})) (+) SetToBag({
                     [h EXCEPT !.pc = "a_fallback_admin",
                               !.calls = <<[op |-> "sendMessage", to |-> ADMIN_ID,
                                            text |-> "InviteWarning", extra |-> <<>>]>>]})
      ]_vars

(***************************************************************************)
(* C16.  Once rejectUserVerification is over for user u, the guards of     *)
(* /start let u through: a /start from u in a private chat then creates a  *)
(* new session, nothing of the rejected request is left to block it.       *)
(***************************************************************************)
\* h stays inside approve/rejectUserVerification: this step takes it to the
\* acknowledgement of the catch block
GoesToCatch(h) ==
    handlers' = (handlers (-) SetToBag({h})) (+) SetToBag({
        [h EXCEPT !.pc = "ack_err", !.calls = <<AckError(h)>>]})

C16_RejectedMayRestart ==
    [][ \A h \in BagToSet(handlers) :
          (/\ Deciding(h, "reject") /\ h.pc \in {"ack", "ack_err"}
           /\ Stepped(h) /\ ~GoesToCatch(h)) =>
              StartGuard(h.query.data[2])' = "start"
      ]_vars

(***************************************************************************)
(* C17.  verifiedUsers only grows while the process runs: a user that is   *)
(* verified stays verified in every later state, whatever events follow.   *)
(***************************************************************************)
C17_VerifiedOnlyGrows ==
    [][ \A u \in UserIds : Truthy(verifiedUsers, u) => Truthy(verifiedUsers', u) ]_vars

\* 42 was approved in this run (the file, whose write failed, does not hold
\* it) and is still verified after a later /start was handled
C17_Witness ==
    /\ Truthy(verifiedUsers, 42)
    /\ ~Truthy(verifiedUsersFile, 42)
    /\ handlers = EmptyBag
    /\ last.calls = <<Send(42, "AlreadyVerified")>>

(***************************************************************************)
(* C18.  A /sendverify that finds the recorded prompt message still in the *)
(* channel edits it in place: the handler ends with the update reported,   *)
(* the channel holds the same messages and the pointer, in memory and on   *)
(* disk, is the same as before.                                            *)
(***************************************************************************)
C18_SecondSendVerifyEdits ==
    [][ \A h \in BagToSet(handlers) :
          (/\ h.kind = "message" /\ h.pc = "sv_edit"
           /\ h.message_id \in channel.live
           /\ Stepped(h)) =>
              /\ Ends(h)
              /\ last'.calls = <<Send(ADMIN_ID, "PromptUpdated")>>
              /\ UNCHANGED <<lastVerificationMessage, lastVerificationMessageFile, channel>>
      ]_vars

(***************************************************************************)
(* C19.  /sendverify issues the post of a new prompt only when the pointer *)
(* is null or the edit of the recorded message has failed; after a failed  *)
(* edit, of whatever kind, it issues exactly one post, and a delivered     *)
(* post adds exactly one message to the channel and sets the pointer to    *)
(* its id, in memory and (unless a write failed) on disk.                  *)
(***************************************************************************)
\* this step of h issued the post of a new prompt, and only that
Posting(h) ==
    \E stale \in 0..MaxMessageId :
        handlers' = (handlers (-) SetToBag({h})) (+) SetToBag({
            [kind |-> "message", pc |-> "sv_send",
             userId |-> IF AtTopic(h) THEN h.msg.from ELSE h.userId,
             stale |-> stale,
             calls |-> <<[op |-> "sendMessage", to |-> 0, text |-> "Prompt",
                          extra |-> <<>>]>>]})

\* this step delivered a post: one new message, recorded by the pointer
Posted ==
    \E n \in 1..MaxMessageId :
        /\ n \notin channel.live
        /\ channel'.live = channel.live \cup {n}
        /\ lastVerificationMessage' = n
        /\ ~writeFailed' => lastVerificationMessageFile' = n

ReportedMissing(h) == h.kind = "message" /\ h.pc = "sv_send" /\ h.stale # 0

IsCommandMsg(h, name) ==
    /\ AtTopic(h)
    /\ RouteBranch(h.msg) = "command"
    /\ CommandName(Trim(h.msg.text)) = name

\* the step of h issued no call to the channel and none to the completion
NoChannelOrCompletionCall(h) ==
    \A i \in 1..Len(IssuedBy(h)) :
        /\ IssuedBy(h)[i].op \notin {"editMessageText", "complete"}
        /\ IssuedBy(h)[i].to # 0

IsChatRequest(h) ==
    /\ AtTopic(h)
    /\ h.msg.text # <<>> /\ ~h.msg.is_bot
    /\ LET userInput == Trim(h.msg.text)
           inSession == h.msg.private /\ Has(verificationSessions, h.msg.from)
       IN  \/ h.msg.reply /\ ~IsCommand(userInput)
           \/ /\ IsCommand(userInput) /\ ~inSession
              /\ CommandName(userInput) = <<"c", "h", "a", "t">>
           \/ /\ ~h.msg.reply /\ ~IsCommand(userInput)
              /\ h.msg.private /\ ~inSession /\ together

\* h waits for the completion service
Generating(h) == h.kind = "message" /\ h.pc = "generate"

C22_ChatChangesNoVerificationState ==
    [][ \A h \in BagToSet(handlers) :
          ((IsChatRequest(h) \/ Generating(h)) /\ Stepped(h)) =>
              UNCHANGED <<memory, files>>
      ]_vars

\* user 42 waits for the admin's decision and has just been answered by the
\* completion service
C22_Witness ==
    /\ Has(pendingApprovals, 42)
    /\ last.how = "returned"
    /\ \E t \in {"Completion", "TemporarilyUnavailable"} :
         last.calls = <<Send(42, t)>>

(***************************************************************************)
(* C23.  Without the completion-service credential every chat-style        *)
(* request (/chat with text, a reply to a message, a plain private text)   *)
(* is answered with the fixed service-disabled message.                    *)
(***************************************************************************)
\* h is a chat-style message, whether or not the completion client exists
IsChatStyle(h) ==
    /\ AtTopic(h)
    /\ h.msg.text # <<>> /\ ~h.msg.is_bot
    /\ LET userInput == Trim(h.msg.text)
           inSession == h.msg.private /\ Has(verificationSessions, h.msg.from)
       IN  \/ h.msg.reply /\ ~IsCommand(userInput)
           \/ /\ IsCommand(userInput) /\ ~inSession
              /\ CommandName(userInput) = <<"c", "h", "a", "t">>
           \/ /\ ~h.msg.reply /\ ~IsCommand(userInput)
              /\ h.msg.private /\ ~inSession

CallsCompletion(cs) == \E i \in 1..Len(cs) : cs[i].op = "complete"

C24_NoCompletionWithoutCredential ==
    ~together =>
        /\ \A h \in BagToSet(handlers) : ~CallsCompletion(h.calls)
        /\ ~CallsCompletion(last.calls)

\* without the client, the admin's /chat was refused while user 42 waits
\* for a decision
C24_Witness ==
    /\ ~together
    /\ Has(pendingApprovals, 42)
    /\ last = [how |-> "returned", calls |-> <<Send(ADMIN_ID, "ChatDisabled")>>]

(***************************************************************************)
(* C25.  A failure of a transport call (send, edit, delete, acknowledge)   *)
(* is caught inside the handler that made it: no message handler and no    *)
(* button-press handler ends with an uncaught error.                       *)
(***************************************************************************)
C25_NoUncaughtError == last.how # "threw"

(***************************************************************************)
(* C26.  When every transport call succeeds: /start of an unverified user  *)
(* u with no session, in a private chat, opens the session and issues the  *)
(* question; u's text issues the decision request with the approve and     *)
(* reject buttons of u to the admin; the admin's approve press marks u and *)
(* issues the success message; with a private group configured the invite  *)
(* link is sent next; and when the approval ends u is verified and has     *)
(* neither a session nor a pending approval.                               *)
(***************************************************************************)
C26_HappyPathVerifies ==
    [][ /\ \A h \in BagToSet(handlers) :
             /\ (/\ IsStartMsg(h) /\ h.msg.private
                 /\ ~Truthy(verifiedUsers, h.msg.from)
                 /\ ~Has(verificationSessions, h.msg.from)
                 /\ ~Has(pendingApprovals, h.msg.from)
                 /\ Stepped(h)) =>
                    /\ Has(verificationSessions', h.msg.from)
                    /\ IssuedBy(h) = <<[op |-> "sendMessage", to |-> h.msg.from,
                                        text |-> "Question",
                                        extra |-> <<verificationQuestion>>]>>
             /\ (/\ AtTopic(h) /\ h.msg.private /\ ~h.msg.reply
                 /\ h.msg.text # <<>> /\ ~IsCommand(Trim(h.msg.text))
                 /\ Has(verificationSessions, h.msg.from)
                 /\ Stepped(h)) =>
                    /\ ~Has(verificationSessions', h.msg.from)
                    /\ Has(pendingApprovals', h.msg.from)
                    /\ IssuedBy(h) =
                         <<[op |-> "sendMessage", to |-> ADMIN_ID, text |-> "DecisionRequest",
                            extra |-> <<h.msg.from, verificationQuestion, Trim(h.msg.text),
                                        <<"approve", h.msg.from>>, <<"reject", h.msg.from>> >>]>>
             /\ (h.kind = "callback" /\ h.pc = "a_success" /\ Stepped(h)) =>
                    IssuedBy(h) =
                      IF PRIVATE_GROUP_ID
                      THEN <<[op |-> "sendMessage", to |-> h.query.data[2],
                              text |-> "InviteLink", extra |-> <<>>]>>
                      ELSE <<[op |-> "answerCallbackQuery", to |-> ADMIN_ID,
                              text |-> "Approved", extra |-> <<>>]>>
             /\ (Deciding(h, "approve") /\ Ends(h)) =>
                    /\ last'.how = "returned"
                    /\ Truthy(verifiedUsers', h.query.data[2])
                    /\ ~Has(verificationSessions', h.query.data[2])
                    /\ ~Has(pendingApprovals', h.query.data[2])
        /\ \A query \in HappyQueries :
             (Has(pendingApprovals, query.data[2]) /\ Pressed(query)) =>
                 /\ Truthy(verifiedUsers', query.data[2])
                 /\ \E h \in BagToSet(handlers') :
                      /\ h.kind = "callback" /\ h.query = query /\ h.pc = "a_success"
                      /\ h.calls = <<[op |-> "sendMessage", to |-> query.data[2],
                                      text |-> "Approved", extra |-> <<>>]>>
      ]_vars

\* with a private group configured, the approval of user 42 has sent the
\* success message and the invite link, was acknowledged and has removed
\* the entry; only the edit of the admin's message is outstanding
C26_Witness ==
    /\ PRIVATE_GROUP_ID
    /\ Truthy(verifiedUsers, 42)
    /\ ~Has(verificationSessions, 42) /\ ~Has(pendingApprovals, 42)
    /\ \E h \in BagToSet(handlers) :
         /\ Deciding(h, "approve") /\ HasDeletedEntry(h)
         /\ h.query.from = ADMIN_ID /\ h.query.data[2] = 42

(***************************************************************************)
(* C27.  As long as no file write has failed, at every suspension point    *)
(* and at the end of every handler the verified-users document equals      *)
(* verifiedUsers and the pointer document equals lastVerificationMessage.  *)
(***************************************************************************)
C27_FilesFollowMemory ==
    ~writeFailed =>
        /\ verifiedUsersFile = verifiedUsers
        /\ lastVerificationMessageFile = lastVerificationMessage

\* the prompt was posted and recorded, and an approval of user 42 is at its
\* first await, with both documents written
C27_Witness ==
    /\ ~writeFailed
    /\ lastVerificationMessage = 1 /\ lastVerificationMessageFile = 1
    /\ Truthy(verifiedUsers, 42) /\ Truthy(verifiedUsersFile, 42)
    /\ \E h \in BagToSet(handlers) : Deciding(h, "approve") /\ h.pc = "a_success"

(***************************************************************************)
(* C28.  When the write of the verified-users document failed during an    *)
(* approval of u: verifiedUsers[u] is true all the same, the write is not  *)
(* made again, /start of u is refused as already verified, and the         *)
(* approval runs to its end, where pendingApprovals[u] has been removed.   *)
(***************************************************************************)
C28_FailedWriteApprovalCompletes ==
    [][ \A h \in BagToSet(handlers) :
          (/\ Deciding(h, "approve")
           /\ ~Truthy(verifiedUsersFile, h.query.data[2])
           /\ Stepped(h)) =>
              /\ Truthy(verifiedUsers', h.query.data[2])
              /\ verifiedUsersFile' = verifiedUsersFile
              /\ StartGuard(h.query.data[2])' = "verified"
              /\ Ends(h) => /\ last'.how = "returned"
                            /\ ~Has(pendingApprovals', h.query.data[2])
      ]_vars

(***************************************************************************)
(* C29.  After a restart of the process there is no session and no pending *)
(* approval, verifiedUsers and lastVerificationMessage are what the two    *)
(* documents hold, a user who was in the middle of a verification and is   *)
(* not in the document may start again, and every approve or reject button *)
(* sent before the restart is answered as expired or unknown.              *)
(***************************************************************************)
\* this step is the start of a new process
Restarted == handlers' = EmptyBag /\ last' = Running /\ channel' = channel

C29_RestartKeepsOnlyDocuments ==
    [][ Restarted =>
          /\ verificationSessions' = <<>>
          /\ pendingApprovals' = <<>>
          /\ verifiedUsers' = verifiedUsersFile
          /\ lastVerificationMessage' = lastVerificationMessageFile
          /\ UNCHANGED <<verifiedUsersFile, lastVerificationMessageFile>>
          /\ \A u \in UserIds :
               (/\ Has(verificationSessions, u) \/ Has(pendingApprovals, u)
                /\ ~Truthy(verifiedUsersFile, u)) => StartGuard(u)' = "start"
          /\ \A query \in AllQueries :
               query.from = ADMIN_ID => CallbackBranch(query)' = "expired"
      ]_vars

\* a new process is up with the recorded prompt and the verified user 42
\* loaded from the documents, the posted prompt still in the channel
C29_Witness ==
    /\ handlers = EmptyBag /\ last = Running
    /\ channel.live = {1}
    /\ lastVerificationMessage = 1
    /\ Truthy(verifiedUsers, 42)
    /\ verificationSessions = <<>> /\ pendingApprovals = <<>>

(***************************************************************************)
(* C30.  Once the decision request for u is with the admin,                *)
(* pendingApprovals[u] is removed by nothing but the handler of an admin's *)
(* approve or reject press for u: the only other removal is the one made   *)
(* when the delivery of the request itself failed.                         *)
(***************************************************************************)
C30_PendingKeptUntilPress ==
    [][ \A u \in UserIds :
          (Has(pendingApprovals, u) /\ ~Has(pendingApprovals', u)) =>
              \E h \in BagToSet(handlers) :
                 /\ Stepped(h)
                 /\ \/ /\ Deciding(h, "approve") \/ Deciding(h, "reject")
                       /\ h.query.from = ADMIN_ID
                       /\ h.query.data[2] = u
                    \/ h.kind = "message" /\ h.pc = "m_ans_admin" /\ h.userId = u
      ]_vars

(***************************************************************************)
(* C31.  A session yields at most one pending approval and one decision    *)
(* request: a step stores or replaces pendingApprovals[u], or issues a     *)
(* decision request for u, only by consuming the open session of u, so of  *)
(* two texts of u handled concurrently the second finds no session and is  *)
(* not taken as an answer.                                                 *)
(***************************************************************************)
\* a decision request is among the calls cs
RequestsDecision(cs) == \E i \in 1..Len(cs) : cs[i].text = "DecisionRequest"

C31_OneAnswerPerSession ==
    [][ /\ \A h \in BagToSet(handlers) :
             (Stepped(h) /\ RequestsDecision(IssuedBy(h))) =>
                 /\ AtTopic(h)
                 /\ Has(verificationSessions, h.msg.from)
                 /\ ~Has(verificationSessions', h.msg.from)
                 /\ Len(IssuedBy(h)) = 1
        /\ \A u \in UserIds :
             (/\ Has(pendingApprovals', u)
              /\ ~Has(pendingApprovals, u) \/ pendingApprovals'[u] # pendingApprovals[u]) =>
                 /\ Has(verificationSessions, u)
                 /\ ~Has(verificationSessions', u)
      ]_vars

\* of two texts of user 42 handled concurrently, one was taken as the answer
\* and its request is on the way to the admin, the other was handed to the
\* chat completion
C31_Witness ==
    /\ Has(pendingApprovals, 42) /\ ~Has(verificationSessions, 42)
    /\ \E h \in BagToSet(handlers) :
         h.kind = "message" /\ h.pc = "m_ans_admin" /\ h.userId = 42
    /\ \E h \in BagToSet(handlers) :
         h.kind = "message" /\ h.pc = "generate" /\ h.userId = 42

(***************************************************************************)
(* C32.  A decision applies only to the submission shown in the message    *)
(* whose button was pressed: the entry that the handler of a press removes *)
(* from pendingApprovals holds the answer shown in that message.           *)
(***************************************************************************)
C32_DecisionOnShownSubmission ==
    [][ \A h \in BagToSet(handlers) :
          (/\ Deciding(h, "approve") \/ Deciding(h, "reject")
           /\ Stepped(h)
           /\ Has(pendingApprovals, h.query.data[2])
           /\ ~Has(pendingApprovals', h.query.data[2])) =>
              pendingApprovals[h.query.data[2]].answer = h.query.message
      ]_vars

(***************************************************************************)
(* C33.  A failure clean-up removes only the entry that the failing        *)
(* handler created.  Handlers of the same user suspended at the same await *)
(* are equal in the model, and the entry present is the one stored last,   *)
(* so the claim requires: when the clean-up of a /start handler removes    *)
(* the session of u, or the clean-up of an answer handler removes the      *)
(* pending approval of u, no second handler of u is suspended at that      *)
(* await (it would be the one whose entry is removed, or the one removing  *)
(* the other's entry).                                                     *)
(***************************************************************************)
\* the step is the catch block of h removing an entry of h.userId
CleansUp(h) ==
    /\ h.kind = "message"
    /\ Stepped(h)
    /\ \/ /\ h.pc = "s_question"
          /\ Has(verificationSessions, h.userId)
          /\ ~Has(verificationSessions', h.userId)
       \/ /\ h.pc \in {"m_ans_admin", "m_ans_confirm"}
          /\ Has(pendingApprovals, h.userId)
          /\ ~Has(pendingApprovals', h.userId)

C33_CleanupRemovesOwnEntry ==
    [][ \A h \in BagToSet(handlers) : CleansUp(h) => CopiesIn(h, handlers) = 1 ]_vars

(***************************************************************************)
(* C34.  At every suspension point a user marked in verifiedUsers has      *)
(* neither a session nor a pending approval.                               *)
(***************************************************************************)
\* C34 as stated
C34_VerifiedExcludesEntries ==
    \A u \in UserIds :
        Truthy(verifiedUsers, u) =>
            /\ ~Has(verificationSessions, u)
            /\ ~Has(pendingApprovals, u)

\* C34 for the session alone: the pending approval of a user stays in place
\* from the mark of the approval until the handler removes it at its end
C34_VerifiedHasNoSession ==
    \A u \in UserIds : Truthy(verifiedUsers, u) => ~Has(verificationSessions, u)

\* the approval of user 42 awaits its acknowledgement: the user is marked,
\* has no session, and the pending approval is still in place
C34_Witness ==
    /\ Truthy(verifiedUsers, 42)
    /\ ~Has(verificationSessions, 42)
    /\ Has(pendingApprovals, 42)
    /\ \E h \in BagToSet(handlers) :
         Deciding(h, "approve") /\ h.pc = "ack" /\ h.query.data[2] = 42

(***************************************************************************)
(* C35.  Of two /sendverify of the admin that interleave at their awaits   *)
(* at most one posts a new prompt: an invocation that finds the pointer    *)
(* null issues the post of a new prompt only when no post of another       *)
(* invocation is outstanding.                                              *)
(***************************************************************************)
\* the post of some /sendverify is outstanding
PostOutstanding == \E x \in BagToSet(handlers) : x.kind = "message" /\ x.pc = "sv_send"

C35_InterleavedSendVerifyPostOnce ==
    [][ \A h \in BagToSet(handlers) :
          (AtTopic(h) /\ Stepped(h) /\ Posting(h)) => ~PostOutstanding
      ]_vars

(***************************************************************************)
(* C36.  In the earlier revision no user has both a session and a pending  *)
(* approval at a suspension point, and a press of the start button by a    *)
(* user who has a session or a pending approval leaves the sessions as     *)
(* they are.                                                               *)
(***************************************************************************)
C36_EarlierSessionXorPending ==
    [][ /\ \A u \in UserIds :
             ~(Has(verificationSessions', u) /\ Has(pendingApprovals', u))
        /\ \A query \in EarlierStartQueries :
             (/\ Has(verificationSessions, query.from) \/ Has(pendingApprovals, query.from)
              /\ Pressed(query)) =>
                 verificationSessions' = verificationSessions
      ]_vars

====
